---- MODULE Spec2Model ----
(***************************************************************************)
(* Model of the CSV -> Excel price export (src/converter.py and the        *)
(* combined src/price_data_parser.py).  One run of                         *)
(* convert_csv_to_excel_ny_time is a linear pipeline over an in-memory     *)
(* table; every statement group of the function is one action.             *)
(*                                                                         *)
(* Representation.                                                         *)
(*   - an instant is an integer number of epoch seconds (unit 's');        *)
(*   - a price is an integer numerator over PriceDen, so every model price *)
(*     is a binary fraction that a float holds exactly and the result of   *)
(*     f"{v:.3f}" is the exact round-half-even of that value;              *)
(*   - a text is a sequence of one-character strings, so formatting and    *)
(*     parsing are real conversions;                                       *)
(*   - a cell is a record [k, v]: k is the kind of Python value held.      *)
(* The pandas behaviour assumed is that of pandas 1.x / 2.x, the versions  *)
(* that accept the '15T' frequency alias the code uses.                    *)
(***************************************************************************)
EXTENDS Integers, Sequences, FiniteSets, TLC

(* ------------------------------------------------------------------ *)
(* Program constants                                                  *)
(* ------------------------------------------------------------------ *)
CSV_COLUMNS == <<"time", "open", "high", "low", "close">>
FINAL_EXCEL_ORDERED_COLUMNS == <<"Date", "Time", "OPEN", "HIGH", "LOW", "CLOSE">>
GAP_INTERVAL_MINUTES == 15
OHLC == <<"open", "high", "low", "close">>
PRICE_COLS == <<"OPEN", "HIGH", "LOW", "CLOSE">>

(* Denominator of the model's prices: a price is v / PriceDen. *)
PriceDen == 2 ^ 11

(* ------------------------------------------------------------------ *)
(* Texts                                                              *)
(* ------------------------------------------------------------------ *)
DigitChars == <<"0", "1", "2", "3", "4", "5", "6", "7", "8", "9">>
Digit(d) == DigitChars[d + 1]
IsDigit(c) == \E i \in 1..10 : DigitChars[i] = c
DigitVal(c) == (CHOOSE i \in 1..10 : DigitChars[i] = c) - 1

GAP == <<"G", "A", "P">>
NAN_TEXT == <<"n", "a", "n">>
JUNK_TEXT == <<"a", "b", "c">>
EMPTY_TEXT == << >>

Abs(n) == IF n < 0 THEN -n ELSE n
SeqToSet(s) == {s[i] : i \in 1..Len(s)}
Contains(s, x) == \E i \in 1..Len(s) : s[i] = x

RECURSIVE NatToText(_)
NatToText(n) == IF n < 10 THEN <<Digit(n)>>
                ELSE NatToText(n \div 10) \o <<Digit(n % 10)>>

RECURSIVE ZeroPad(_, _)
(* the decimal digits of n, left-padded with zeros to width w *)
ZeroPad(n, w) == IF w <= 1 THEN NatToText(n)
                 ELSE IF Len(NatToText(n)) >= w THEN NatToText(n)
                 ELSE <<"0">> \o ZeroPad(n, w - 1)

(* str.replace(old, new) for one-character old and new *)
Replace(s, old, new) == [i \in 1..Len(s) |-> IF s[i] = old THEN new ELSE s[i]]

(* ------------------------------------------------------------------ *)
(* f"{value:.3f}": round the exact value to 3 decimals, ties to even;  *)
(* the sign of a negative value is kept even when it rounds to zero.  *)
(* ------------------------------------------------------------------ *)
(* mutant: the value is cut, not rounded *)
RoundDown(num, den) == num \div den

RoundHalfEven(num, den) ==
    LET q == num \div den
        r == num % den
    IN  IF 2 * r > den \/ (2 * r = den /\ q % 2 = 1) THEN q + 1 ELSE q

Thousandths(v) == RoundHalfEven(Abs(v) * 1000, PriceDen)

FormatFixed3(v) ==
    LET m == Thousandths(v)
    IN  (IF v < 0 THEN <<"-">> ELSE << >>)
        \o NatToText(m \div 1000) \o <<".">> \o ZeroPad(m % 1000, 3)

(* ------------------------------------------------------------------ *)
(* Cells                                                              *)
(* ------------------------------------------------------------------ *)
Num(v) == [k |-> "num", v |-> v]       \* int or float
NumStr(v) == [k |-> "numstr", v |-> v] \* str holding a decimal number
NaN == [k |-> "nan", v |-> 0]          \* float nan (empty CSV field)
Junk == [k |-> "junk", v |-> 0]        \* str that is no number
GapCell == [k |-> "gap", v |-> 0]      \* the str "GAP"
None == [k |-> "none", v |-> 0]        \* None / NaT / column not computed
Utc(t) == [k |-> "utc", v |-> t]       \* a timestamp, tz UTC
Ny(t) == [k |-> "ny", v |-> t]         \* the same instant, tz America/New_York
Text(s) == [k |-> "text", v |-> s]     \* a formatted str

IsNull(c) == c.k \in {"nan", "none"}

format_price_or_gap(value) ==
    IF value.k = "gap" THEN GAP
    ELSE IF value.k = "num" THEN Replace(FormatFixed3(value.v), ".", ",")
    ELSE IF value.k = "nan" THEN Replace(NAN_TEXT, ".", ",")
    ELSE IF ~IsNull(value) THEN
        IF value.k = "numstr" THEN Replace(FormatFixed3(value.v), ".", ",")
        ELSE IF value.k = "junk" THEN JUNK_TEXT
        ELSE value.v
    ELSE EMPTY_TEXT

(* Reading a formatted price back: ',' -> '.', then the decimal value *)
(* in thousandths.  Defined on texts of the form [-]d+.ddd.            *)
RECURSIVE DigitsToNat(_)
DigitsToNat(s) == IF Len(s) = 0 THEN 0
                  ELSE 10 * DigitsToNat(SubSeq(s, 1, Len(s) - 1)) + DigitVal(s[Len(s)])

IsFixed3(s) ==
    LET body == IF Len(s) > 0 /\ s[1] = "-" THEN Tail(s) ELSE s
        n == Len(body)
    IN  /\ n >= 5
        /\ body[n - 3] = "."
        /\ \A i \in 1..n : i # n - 3 => IsDigit(body[i])

ParseThousandths(s) ==
    LET dotted == Replace(s, ",", ".")
        neg == Len(dotted) > 0 /\ dotted[1] = "-"
        body == IF neg THEN Tail(dotted) ELSE dotted
        n == Len(body)
        mag == DigitsToNat(SubSeq(body, 1, n - 4)) * 1000
               + DigitsToNat(SubSeq(body, n - 2, n))
    IN  IF neg THEN -mag ELSE mag

(* ------------------------------------------------------------------ *)
(* Civil time in America/New_York (the rules in force since 2007:     *)
(* daylight time from the second Sunday of March, 07:00 UTC, to the   *)
(* first Sunday of November, 06:00 UTC).                              *)
(* ------------------------------------------------------------------ *)
DaysFromCivil(y, m, d) ==
    LET yy == IF m <= 2 THEN y - 1 ELSE y
        era == yy \div 400
        yoe == yy - era * 400
        mp == IF m > 2 THEN m - 3 ELSE m + 9
        doy == (153 * mp + 2) \div 5 + d - 1
        doe == yoe * 365 + yoe \div 4 - yoe \div 100 + doy
    IN  era * 146097 + doe - 719468

CivilFromDays(days) ==
    LET z == days + 719468
        era == z \div 146097
        doe == z - era * 146097
        yoe == (doe - doe \div 1460 + doe \div 36524 - doe \div 146096) \div 365
        doy == doe - (365 * yoe + yoe \div 4 - yoe \div 100)
        mp == (5 * doy + 2) \div 153
        d == doy - (153 * mp + 2) \div 5 + 1
        m == IF mp < 10 THEN mp + 3 ELSE mp - 9
        y == yoe + era * 400 + (IF m <= 2 THEN 1 ELSE 0)
    IN  [year |-> y, month |-> m, day |-> d]

(* 0 = Sunday; 1970-01-01 was a Thursday *)
Weekday(days) == (days + 4) % 7

(* the day number of the n-th Sunday of month m of year y *)
NthSunday(y, m, n) ==
    LET first == DaysFromCivil(y, m, 1)
    IN  first + ((7 - Weekday(first)) % 7) + 7 * (n - 1)

IsDaylightTime(t) ==
    LET y == CivilFromDays(t \div 86400).year
        begins == NthSunday(y, 3, 2) * 86400 + 7 * 3600
        ends == NthSunday(y, 11, 1) * 86400 + 6 * 3600
    IN  begins <= t /\ t < ends

NyUtcOffset(t) == IF IsDaylightTime(t) THEN -4 * 3600 ELSE -5 * 3600

(* wall-clock seconds of a cell: UTC cells carry no offset *)
WallSeconds(c) == IF c.k = "ny" THEN c.v + NyUtcOffset(c.v) ELSE c.v

(* strftime('%d/%m/%Y') *)
StrfDate(c) ==
    LET civ == CivilFromDays(WallSeconds(c) \div 86400)
    IN  ZeroPad(civ.day, 2) \o <<"/">> \o ZeroPad(civ.month, 2) \o <<"/">>
        \o ZeroPad(civ.year, 4)

(* strftime('%H:%M:%S') *)
StrfTime(c) ==
    LET sod == WallSeconds(c) % 86400
    IN  ZeroPad(sod \div 3600, 2) \o <<":">> \o ZeroPad((sod % 3600) \div 60, 2)
        \o <<":">> \o ZeroPad(sod % 60, 2)

(* ------------------------------------------------------------------ *)
(* Data frames: an ordered list of column names, one index label per  *)
(* row, and one function column -> cell per row.                      *)
(* ------------------------------------------------------------------ *)
Frame(cols, idx, data) == [columns |-> cols, index |-> idx, data |-> data]
NoFrame == Frame(<< >>, << >>, << >>)
IsEmpty(f) == Len(f.data) = 0 \/ Len(f.columns) = 0
RangeIndex(n) == [i \in 1..n |-> Num(i - 1)]

(* mutant: the selection keeps every column *)
SelectEvery(f, cols) == f

(* df[cols] : the listed columns, in the listed order *)
SelectColumns(f, cols) ==
    Frame(cols, f.index,
          [i \in 1..Len(f.data) |-> [c \in SeqToSet(cols) |-> f.data[i][c]]])

(* df[name] = values : replace the column, or append it at the end *)
SetColumn(f, name, values) ==
    Frame(IF Contains(f.columns, name) THEN f.columns ELSE Append(f.columns, name),
          f.index,
          [i \in 1..Len(f.data) |->
              [c \in SeqToSet(f.columns) \cup {name} |->
                  IF c = name THEN values[i] ELSE f.data[i][c]]])

(* df.rename(columns = {old: new}); an absent old name is ignored *)
RenameColumn(f, old, new) ==
    IF ~Contains(f.columns, old) THEN f
    ELSE Frame([j \in 1..Len(f.columns) |->
                   IF f.columns[j] = old THEN new ELSE f.columns[j]],
               f.index,
               [i \in 1..Len(f.data) |->
                   [c \in (SeqToSet(f.columns) \ {old}) \cup {new} |->
                       IF c = new THEN f.data[i][old] ELSE f.data[i][c]]])

(* the rows at the given positions, in that order *)
TakeRows(f, pos) ==
    Frame(f.columns, [j \in 1..Len(pos) |-> f.index[pos[j]]],
          [j \in 1..Len(pos) |-> f.data[pos[j]]])

(* ------------------------------------------------------------------ *)
(* Bounds and input domains                                           *)
(* ------------------------------------------------------------------ *)
MaxRows == 3
FmtMax == 2100

TimeCells == {Num(1700000000), Num(1700000450), Num(1700001800), Junk}
Bars == { <<Num(205052), Num(206848), Num(203776), Num(205824)>>,
          <<NaN, Num(128), Num(-1), Junk>> }
Headers == { <<"time", "open", "high", "low", "close">>,
             <<"close", "volume", "time", "open", "high", "low">>,
             <<"time", "open", "volume">> }
CadenceVals == {15, 30}
FmtValues == (-FmtMax .. FmtMax) \cup {204800, 205052}

RawRow(tc, bar) ==
    [c \in {"time", "open", "high", "low", "close", "volume"} |->
        CASE c = "time" -> tc
          [] c = "open" -> bar[1]
          [] c = "high" -> bar[2]
          [] c = "low" -> bar[3]
          [] c = "close" -> bar[4]
          [] OTHER -> Num(0)]

RowsOver(h) ==
    {[c \in SeqToSet(h) |-> RawRow(tc, bar)[c]] : tc \in TimeCells, bar \in Bars}

RowSeqs(h) == UNION {[1..n -> RowsOver(h)] : n \in 0..MaxRows}
CsvFiles ==
    UNION {{[exists |-> TRUE, header |-> h, rows |-> r, torn |-> FALSE] :
               r \in RowSeqs(h)} :
              h \in Headers}
NoCsv == [exists |-> FALSE, header |-> << >>, rows |-> << >>, torn |-> FALSE]

NoFile == [state |-> "absent", columns |-> << >>, rows |-> << >>]

(* ------------------------------------------------------------------ *)
(* State                                                              *)
(* ------------------------------------------------------------------ *)
VARIABLES
    variant,              \* "converter" (converter.py) or "parser" (price_data_parser.py)
    gap_interval_minutes, \* GAP_INTERVAL_MINUTES / the gap_interval_minutes argument
    csvFile,              \* the input file at csv_filepath
    excelFile,            \* the output file at excel_filepath
    pc,                   \* the statement group the run is at
    df,                   \* the frame read from the CSV
    df_processed,
    missing_cols,
    min_time,
    max_time,
    full_range,
    df_reindexed,
    output_df,
    message,              \* which diagnostic the run printed
    retval,               \* what the function returned
    stages,               \* the statement groups executed so far, in order
    fmtIn,                \* format_price_or_gap on its own: the value,
    fmtOut,               \*   its text,
    fmtBack,              \*   the text read back (thousandths),
    fmtPc,
    DOWNLOAD_TICKER_SYMBOL,   \* price_data_parser.py __main__: the symbol chosen,
    mainPc,                   \*   the statement the script is at,
    download_successful,      \*   "unset", "True" or "False"
    conversion_successful,    \*   "unset", "True" or "False"
    events                    \*   the calls made and what they returned, in order

runVars == <<variant, gap_interval_minutes, csvFile, excelFile, pc, df, df_processed,
             missing_cols, min_time, max_time, full_range, df_reindexed, output_df,
             message, retval, stages>>
fmtVars == <<fmtIn, fmtOut, fmtBack, fmtPc>>
mainVars == <<DOWNLOAD_TICKER_SYMBOL, mainPc, download_successful,
              conversion_successful, events>>
vars == <<runVars, fmtVars, mainVars>>

Returns(ok) == IF variant = "parser" THEN (IF ok THEN "True" ELSE "False") ELSE "None"

(* the run ends: the diagnostic printed and the value returned *)
Finish(msg, ok) ==
    /\ pc' = "done"
    /\ message' = msg
    /\ retval' = Returns(ok)

RunInit ==
    /\ variant \in {"converter", "parser"}
    /\ gap_interval_minutes \in
          (IF variant = "converter" THEN {GAP_INTERVAL_MINUTES} ELSE CadenceVals)
    /\ csvFile \in CsvFiles \cup {NoCsv}
    /\ excelFile = NoFile
    /\ pc = "read"
    /\ df = NoFrame
    /\ df_processed = NoFrame
    /\ missing_cols = << >>
    /\ min_time = None
    /\ max_time = None
    /\ full_range = << >>
    /\ df_reindexed = NoFrame
    /\ output_df = NoFrame
    /\ message = "none"
    /\ retval = "running"
    /\ stages = << >>

FmtIdle ==
    /\ fmtIn = 0
    /\ fmtOut = << >>
    /\ fmtBack = 0
    /\ fmtPc = "idle"

(* the function is called on its own: no script around it *)
MainIdle ==
    /\ DOWNLOAD_TICKER_SYMBOL = ""
    /\ mainPc = "none"
    /\ download_successful = "unset"
    /\ conversion_successful = "unset"
    /\ events = << >>

Init == RunInit /\ FmtIdle /\ MainIdle

(* ------------------------------------------------------------------ *)
(* 1. pd.read_csv: a column holding any non-numeric text is read as   *)
(*    text throughout (its numbers stay as their decimal strings).    *)
(* ------------------------------------------------------------------ *)
InferColumn(rows, c) ==
    IF \E i \in 1..Len(rows) : rows[i][c].k = "junk"
    THEN [i \in 1..Len(rows) |->
             IF rows[i][c].k = "num" THEN NumStr(rows[i][c].v) ELSE rows[i][c]]
    ELSE [i \in 1..Len(rows) |-> rows[i][c]]

read_csv(file) ==
    Frame(file.header, RangeIndex(Len(file.rows)),
          [i \in 1..Len(file.rows) |->
              [c \in SeqToSet(file.header) |-> InferColumn(file.rows, c)[i]]])

ReadCsv ==
    /\ pc = "read"
    /\ csvFile.exists
    /\ df' = read_csv(csvFile)
    /\ pc' = "check"
    /\ stages' = Append(stages, "read")
    /\ UNCHANGED <<fmtVars, mainVars>>
    /\ UNCHANGED <<variant, gap_interval_minutes, csvFile, excelFile, df_processed,
                   missing_cols, min_time, max_time, full_range, df_reindexed,
                   output_df, message, retval>>

ReadCsvFileNotFound ==
    /\ pc = "read"
    /\ ~csvFile.exists
    /\ Finish("file_not_found", FALSE)
    /\ stages' = Append(stages, "read")
    /\ UNCHANGED <<fmtVars, mainVars>>
    /\ UNCHANGED <<variant, gap_interval_minutes, csvFile, excelFile, df, df_processed,
                   missing_cols, min_time, max_time, full_range, df_reindexed,
                   output_df>>

(* ------------------------------------------------------------------ *)
(* 2. the required columns                                            *)
(* ------------------------------------------------------------------ *)
(* mutant: only the first absent column is reported *)
MissingColsFirst(f) ==
    LET Absent(c) == ~Contains(f.columns, c)
    IN  SubSeq(SelectSeq(CSV_COLUMNS, Absent), 1, 1)

MissingCols(f) ==
    LET Absent(c) == ~Contains(f.columns, c)
    IN  SelectSeq(CSV_COLUMNS, Absent)

CheckColumns ==
    /\ pc = "check"
    /\ missing_cols' = MissingCols(df)
    /\ stages' = Append(stages, "check")
    /\ IF Len(MissingCols(df)) > 0
       THEN /\ Finish("missing_columns", FALSE)
            /\ UNCHANGED df_processed
       ELSE /\ df_processed' = SelectColumns(df, CSV_COLUMNS)
            /\ pc' = "normalize"
            /\ UNCHANGED <<message, retval>>
    /\ UNCHANGED <<fmtVars, mainVars>>
    /\ UNCHANGED <<variant, gap_interval_minutes, csvFile, excelFile, df, min_time,
                   max_time, full_range, df_reindexed, output_df>>

(* ------------------------------------------------------------------ *)
(* 3. pd.to_datetime(unit='s', utc=True, errors='coerce'), dropna     *)
(* ------------------------------------------------------------------ *)
(* mutant: unparseable times are not coerced to NaT *)
to_datetime_any(c) == Utc(c.v)

to_datetime(c) == IF c.k \in {"num", "numstr"} THEN Utc(c.v) ELSE None

DropNa(f, col) ==
    LET Kept(i) == ~IsNull(f.data[i][col])
    IN  TakeRows(f, SelectSeq([i \in 1..Len(f.data) |-> i], Kept))

ToUtc(f) ==
    DropNa(SetColumn(f, "time_dt_utc",
                     [i \in 1..Len(f.data) |-> to_datetime(f.data[i]["time"])]),
           "time_dt_utc")

Normalize ==
    /\ pc = "normalize"
    /\ df_processed' = ToUtc(df_processed)
    /\ stages' = Append(stages, "normalize")
    /\ IF IsEmpty(ToUtc(df_processed))
       THEN Finish("no_valid_timestamps", FALSE)
       ELSE /\ pc' = "tz"
            /\ UNCHANGED <<message, retval>>
    /\ UNCHANGED <<fmtVars, mainVars>>
    /\ UNCHANGED <<variant, gap_interval_minutes, csvFile, excelFile, df, missing_cols,
                   min_time, max_time, full_range, df_reindexed, output_df>>

(* ------------------------------------------------------------------ *)
(* 4. tz_convert to America/New_York: the instant is kept             *)
(* ------------------------------------------------------------------ *)
tz_convert(c) == Ny(c.v)

ToNy(f) ==
    SetColumn(f, "time_dt_ny",
              [i \in 1..Len(f.data) |-> tz_convert(f.data[i]["time_dt_utc"])])

TzConvert ==
    /\ pc = "tz"
    /\ df_processed' = ToNy(df_processed)
    /\ pc' = "sort"
    /\ stages' = Append(stages, "tz")
    /\ UNCHANGED <<fmtVars, mainVars>>
    /\ UNCHANGED <<variant, gap_interval_minutes, csvFile, excelFile, df, missing_cols,
                   min_time, max_time, full_range, df_reindexed, output_df, message,
                   retval>>

(* pytz cannot resolve the zone name: UnknownTimeZoneError is a KeyError,
   so the 'except KeyError' clause, which comes first, handles it and
   prints the required-column diagnostic *)
TzUnknown ==
    /\ pc = "tz"
    /\ Finish("KeyError_required_column_not_found", FALSE)
    /\ stages' = Append(stages, "tz")
    /\ UNCHANGED <<fmtVars, mainVars>>
    /\ UNCHANGED <<variant, gap_interval_minutes, csvFile, excelFile, df, df_processed,
                   missing_cols, min_time, max_time, full_range, df_reindexed,
                   output_df>>

(* ------------------------------------------------------------------ *)
(* 5. sort_values(by='time_dt_ny'), set_index('time_dt_ny')           *)
(* ------------------------------------------------------------------ *)
RECURSIVE InsertByKey(_, _, _)
(* position p put into the ordered list of positions, after every     *)
(* position whose key is not larger                                   *)
InsertByKey(sorted, p, key) ==
    IF Len(sorted) = 0 THEN <<p>>
    ELSE IF key[Head(sorted)] <= key[p]
         THEN <<Head(sorted)>> \o InsertByKey(Tail(sorted), p, key)
         ELSE <<p>> \o sorted

RECURSIVE SortPositions(_, _)
SortPositions(n, key) ==
    IF n = 0 THEN << >> ELSE InsertByKey(SortPositions(n - 1, key), n, key)

(* mutant: the rows are left in input order *)
sort_values_none(f, col) == f

sort_values(f, col) ==
    TakeRows(f, SortPositions(Len(f.data), [i \in 1..Len(f.data) |-> f.data[i][col].v]))

set_index(f, col) ==
    LET Other(c) == c # col
        rest == SelectSeq(f.columns, Other)
    IN  Frame(rest, [i \in 1..Len(f.data) |-> f.data[i][col]],
              [i \in 1..Len(f.data) |-> [c \in SeqToSet(rest) |-> f.data[i][c]]])

SortSetIndex ==
    /\ pc = "sort"
    /\ df_processed' = set_index(sort_values(df_processed, "time_dt_ny"), "time_dt_ny")
    /\ pc' = "grid"
    /\ stages' = Append(stages, "sort")
    /\ UNCHANGED <<fmtVars, mainVars>>
    /\ UNCHANGED <<variant, gap_interval_minutes, csvFile, excelFile, df, missing_cols,
                   min_time, max_time, full_range, df_reindexed, output_df, message,
                   retval>>

(* ------------------------------------------------------------------ *)
(* 6. index.min(), index.max(), pd.date_range(start, end, freq)       *)
(* ------------------------------------------------------------------ *)
IndexMin(f) == CHOOSE c \in SeqToSet(f.index) : \A d \in SeqToSet(f.index) : c.v <= d.v
IndexMax(f) == CHOOSE c \in SeqToSet(f.index) : \A d \in SeqToSet(f.index) : d.v <= c.v

RECURSIVE date_range_open(_, _, _)
(* mutant: the end of the range is left out *)
date_range_open(start, end, freq) ==
    IF start.v >= end.v THEN << >>
    ELSE <<start>> \o date_range_open(Ny(start.v + freq), end, freq)

RECURSIVE date_range(_, _, _)
(* the slots start, start + freq, ... that are not after end *)
date_range(start, end, freq) ==
    IF start.v > end.v THEN << >>
    ELSE <<start>> \o date_range(Ny(start.v + freq), end, freq)

GapFreq == gap_interval_minutes * 60

BuildGrid ==
    /\ pc = "grid"
    /\ min_time' = IndexMin(df_processed)
    /\ max_time' = IndexMax(df_processed)
    /\ full_range' = date_range(IndexMin(df_processed), IndexMax(df_processed), GapFreq)
    /\ pc' = "reindex"
    /\ stages' = Append(stages, "grid")
    /\ UNCHANGED <<fmtVars, mainVars>>
    /\ UNCHANGED <<variant, gap_interval_minutes, csvFile, excelFile, df, df_processed,
                   missing_cols, df_reindexed, output_df, message, retval>>

(* ------------------------------------------------------------------ *)
(* 7. df_processed.reindex(full_range): an index with duplicate       *)
(*    labels cannot be reindexed (ValueError)                         *)
(* ------------------------------------------------------------------ *)
HasDuplicateLabels(f) ==
    \E i, j \in 1..Len(f.index) : i # j /\ f.index[i] = f.index[j]

NullRow(cols) == [c \in SeqToSet(cols) |-> IF c = "time_dt_utc" THEN None ELSE NaN]

(* mutant: a slot without a label of its own takes the last row before it *)
reindex_pad(f, target) ==
    Frame(f.columns, target,
          [j \in 1..Len(target) |->
              LET upto == {i \in 1..Len(f.index) : f.index[i].v <= target[j].v}
              IN  IF upto = {} THEN NullRow(f.columns)
                  ELSE f.data[CHOOSE i \in upto :
                                 \A h \in upto : f.index[h].v <= f.index[i].v]])

reindex(f, target) ==
    Frame(f.columns, target,
          [j \in 1..Len(target) |->
              IF \E i \in 1..Len(f.index) : f.index[i] = target[j]
              THEN f.data[CHOOSE i \in 1..Len(f.index) : f.index[i] = target[j]]
              ELSE NullRow(f.columns)])

Reindex ==
    /\ pc = "reindex"
    /\ ~HasDuplicateLabels(df_processed)
    /\ df_reindexed' = reindex(df_processed, full_range)
    /\ pc' = "fill"
    /\ stages' = Append(stages, "reindex")
    /\ UNCHANGED <<fmtVars, mainVars>>
    /\ UNCHANGED <<variant, gap_interval_minutes, csvFile, excelFile, df, df_processed,
                   missing_cols, min_time, max_time, full_range, output_df, message,
                   retval>>

ReindexDuplicateLabels ==
    /\ pc = "reindex"
    /\ HasDuplicateLabels(df_processed)
    /\ Finish("unexpected_ValueError", FALSE)
    /\ stages' = Append(stages, "reindex")
    /\ UNCHANGED <<fmtVars, mainVars>>
    /\ UNCHANGED <<variant, gap_interval_minutes, csvFile, excelFile, df, df_processed,
                   missing_cols, min_time, max_time, full_range, df_reindexed,
                   output_df>>

(* ------------------------------------------------------------------ *)
(* 8. fillna("GAP") on open/high/low/close, reset_index, rename       *)
(* ------------------------------------------------------------------ *)
(* mutant: the fill is lost *)
fillna_lost(c) == c

fillna(c) == IF IsNull(c) THEN GapCell ELSE c

FillColumn(f, col) ==
    IF Contains(f.columns, col)
    THEN SetColumn(f, col, [i \in 1..Len(f.data) |-> fillna(f.data[i][col])])
    ELSE SetColumn(f, col, [i \in 1..Len(f.data) |-> GapCell])

FillOhlc(f) ==
    FillColumn(FillColumn(FillColumn(FillColumn(f, OHLC[1]), OHLC[2]), OHLC[3]), OHLC[4])

reset_index(f) ==
    Frame(<<"index">> \o f.columns, RangeIndex(Len(f.data)),
          [i \in 1..Len(f.data) |->
              [c \in SeqToSet(f.columns) \cup {"index"} |->
                  IF c = "index" THEN f.index[i] ELSE f.data[i][c]]])

FillGap ==
    /\ pc = "fill"
    /\ df_reindexed' = reset_index(FillOhlc(df_reindexed))
    /\ df_processed' = RenameColumn(reset_index(FillOhlc(df_reindexed)),
                                    "index", "time_dt_ny")
    /\ pc' = "datetime"
    /\ stages' = Append(stages, "fill")
    /\ UNCHANGED <<fmtVars, mainVars>>
    /\ UNCHANGED <<variant, gap_interval_minutes, csvFile, excelFile, df, missing_cols,
                   min_time, max_time, full_range, output_df, message, retval>>

(* ------------------------------------------------------------------ *)
(* 9. the Date and Time columns                                       *)
(* ------------------------------------------------------------------ *)
AddDateTime(f) ==
    SetColumn(SetColumn(f, "Date",
                        [i \in 1..Len(f.data) |-> Text(StrfDate(f.data[i]["time_dt_ny"]))]),
              "Time", [i \in 1..Len(f.data) |-> Text(StrfTime(f.data[i]["time_dt_ny"]))])

FormatDateTime ==
    /\ pc = "datetime"
    /\ df_processed' = AddDateTime(df_processed)
    /\ pc' = "assemble"
    /\ stages' = Append(stages, "datetime")
    /\ UNCHANGED <<fmtVars, mainVars>>
    /\ UNCHANGED <<variant, gap_interval_minutes, csvFile, excelFile, df, missing_cols,
                   min_time, max_time, full_range, df_reindexed, output_df, message,
                   retval>>

(* ------------------------------------------------------------------ *)
(* 10. rename to upper case, (parser) add absent output columns as    *)
(*     None, select the output columns                                *)
(* ------------------------------------------------------------------ *)
RenameOhlc(f) ==
    RenameColumn(RenameColumn(RenameColumn(RenameColumn(f,
        "open", "OPEN"), "high", "HIGH"), "low", "LOW"), "close", "CLOSE")

RECURSIVE AddAbsent(_, _)
AddAbsent(f, cols) ==
    IF Len(cols) = 0 THEN f
    ELSE AddAbsent(IF Contains(f.columns, Head(cols)) THEN f
                   ELSE SetColumn(f, Head(cols), [i \in 1..Len(f.data) |-> None]),
                   Tail(cols))

Renamed(f) ==
    IF variant = "parser" THEN AddAbsent(RenameOhlc(f), FINAL_EXCEL_ORDERED_COLUMNS)
    ELSE RenameOhlc(f)

(* mutant: the write follows the selection at once *)
AssembleThenWrite ==
    /\ pc = "assemble"
    /\ df_processed' = Renamed(df_processed)
    /\ output_df' = SelectColumns(Renamed(df_processed), FINAL_EXCEL_ORDERED_COLUMNS)
    /\ pc' = "write"
    /\ stages' = Append(stages, "assemble")
    /\ UNCHANGED <<fmtVars, mainVars>>
    /\ UNCHANGED <<variant, gap_interval_minutes, csvFile, excelFile, df, missing_cols,
                   min_time, max_time, full_range, df_reindexed, message, retval>>

Assemble ==
    /\ pc = "assemble"
    /\ df_processed' = Renamed(df_processed)
    /\ output_df' = SelectColumns(Renamed(df_processed), FINAL_EXCEL_ORDERED_COLUMNS)
    /\ pc' = "prices"
    /\ stages' = Append(stages, "assemble")
    /\ UNCHANGED <<fmtVars, mainVars>>
    /\ UNCHANGED <<variant, gap_interval_minutes, csvFile, excelFile, df, missing_cols,
                   min_time, max_time, full_range, df_reindexed, message, retval>>

(* ------------------------------------------------------------------ *)
(* 11. the price columns                                              *)
(* ------------------------------------------------------------------ *)
RECURSIVE ApplyFormat(_, _)
ApplyFormat(f, cols) ==
    IF Len(cols) = 0 THEN f
    ELSE ApplyFormat(
            IF Contains(f.columns, Head(cols))
            THEN SetColumn(f, Head(cols),
                     [i \in 1..Len(f.data) |->
                         Text(format_price_or_gap(f.data[i][Head(cols)]))])
            ELSE f,
            Tail(cols))

FormatPrices ==
    /\ pc = "prices"
    /\ output_df' = ApplyFormat(output_df, PRICE_COLS)
    /\ pc' = "write"
    /\ stages' = Append(stages, "prices")
    /\ UNCHANGED <<fmtVars, mainVars>>
    /\ UNCHANGED <<variant, gap_interval_minutes, csvFile, excelFile, df, df_processed,
                   missing_cols, min_time, max_time, full_range, df_reindexed, message,
                   retval>>

(* ------------------------------------------------------------------ *)
(* 12. to_excel(excel_filepath, index=False): the file is created     *)
(*     when the writer opens it and filled when the workbook is       *)
(*     saved; either step can raise                                   *)
(* ------------------------------------------------------------------ *)
Sheet(f) ==
    [state |-> "complete", columns |-> f.columns,
     rows |-> [i \in 1..Len(f.data) |-> [c \in SeqToSet(f.columns) |-> f.data[i][c].v]]]
PartialFile == [state |-> "partial", columns |-> << >>, rows |-> << >>]

WriteExcel ==
    /\ pc = "write"
    /\ excelFile' = Sheet(output_df)
    /\ Finish("success", TRUE)
    /\ stages' = Append(stages, "write")
    /\ UNCHANGED <<fmtVars, mainVars>>
    /\ UNCHANGED <<variant, gap_interval_minutes, csvFile, df, df_processed, missing_cols,
                   min_time, max_time, full_range, df_reindexed, output_df>>

(* the output path cannot be opened for writing because a part of it does
   not exist: FileNotFoundError, which the first clause handles with the
   diagnostic of the missing input file *)
WriteExcelOpenNotFound ==
    /\ pc = "write"
    /\ Finish("file_not_found", FALSE)
    /\ stages' = Append(stages, "write")
    /\ UNCHANGED <<fmtVars, mainVars>>
    /\ UNCHANGED <<variant, gap_interval_minutes, csvFile, excelFile, df, df_processed,
                   missing_cols, min_time, max_time, full_range, df_reindexed,
                   output_df>>

(* the output path cannot be opened for writing for another reason
   (no permission, a directory in its place) *)
WriteExcelOpenFails ==
    /\ pc = "write"
    /\ Finish("unexpected_OSError_open", FALSE)
    /\ stages' = Append(stages, "write")
    /\ UNCHANGED <<fmtVars, mainVars>>
    /\ UNCHANGED <<variant, gap_interval_minutes, csvFile, excelFile, df, df_processed,
                   missing_cols, min_time, max_time, full_range, df_reindexed,
                   output_df>>

(* the file was opened, and writing the workbook into it raises *)
WriteExcelSaveFails ==
    /\ pc = "write"
    /\ excelFile' = PartialFile
    /\ Finish("unexpected_OSError_save", FALSE)
    /\ stages' = Append(stages, "write")
    /\ UNCHANGED <<fmtVars, mainVars>>
    /\ UNCHANGED <<variant, gap_interval_minutes, csvFile, df, df_processed, missing_cols,
                   min_time, max_time, full_range, df_reindexed, output_df>>

(* ------------------------------------------------------------------ *)
(* The run                                                            *)
(* ------------------------------------------------------------------ *)
Next ==
    \/ ReadCsv
    \/ ReadCsvFileNotFound
    \/ CheckColumns
    \/ Normalize
    \/ TzConvert
    \/ TzUnknown
    \/ SortSetIndex
    \/ BuildGrid
    \/ Reindex
    \/ ReindexDuplicateLabels
    \/ FillGap
    \/ FormatDateTime
    \/ Assemble
    \/ FormatPrices
    \/ WriteExcel
    \/ WriteExcelOpenNotFound
    \/ WriteExcelOpenFails
    \/ WriteExcelSaveFails

Spec == Init /\ [][Next]_vars

(* ------------------------------------------------------------------ *)
(* format_price_or_gap on its own, over a range of prices             *)
(* ------------------------------------------------------------------ *)
FmtInit ==
    /\ fmtIn \in FmtValues
    /\ fmtOut = << >>
    /\ fmtBack = 0
    /\ fmtPc = "value"
    /\ MainIdle
    /\ variant = "converter"
    /\ gap_interval_minutes = GAP_INTERVAL_MINUTES
    /\ csvFile = NoCsv
    /\ excelFile = NoFile
    /\ pc = "done"
    /\ df = NoFrame
    /\ df_processed = NoFrame
    /\ missing_cols = << >>
    /\ min_time = None
    /\ max_time = None
    /\ full_range = << >>
    /\ df_reindexed = NoFrame
    /\ output_df = NoFrame
    /\ message = "none"
    /\ retval = "running"
    /\ stages = << >>

FmtFormat ==
    /\ fmtPc = "value"
    /\ fmtOut' = format_price_or_gap(Num(fmtIn))
    /\ fmtPc' = "text"
    /\ UNCHANGED <<fmtIn, fmtBack>>
    /\ UNCHANGED <<runVars, mainVars>>

FmtParse ==
    /\ fmtPc = "text"
    /\ fmtBack' = ParseThousandths(fmtOut)
    /\ fmtPc' = "parsed"
    /\ UNCHANGED <<fmtIn, fmtOut>>
    /\ UNCHANGED <<runVars, mainVars>>

FmtNext == FmtFormat \/ FmtParse

FmtSpec == FmtInit /\ [][FmtNext]_vars

(* ------------------------------------------------------------------ *)
(* price_data_parser.py run as a script: choose, download, convert,   *)
(* remove the intermediate CSV                                        *)
(* ------------------------------------------------------------------ *)
CONVERTER_GAP_INTERVAL_MINUTES == 15
DOWNLOAD_DESIRED_COLUMNS_OUTPUT_ORDER ==
    <<"time", "open", "high", "low", "close", "volume">>
market_data_options == <<"DX=F", "ES=F", "NQ=F">>

(* what yf.download may hand back, after reset_index, the 'time' column
   and the renaming: the instants of the bars, the bars, and the columns
   the reply carries next to the time *)
YahooTimes == {tc \in TimeCells : tc.k = "num"}
YahooBars == {b \in Bars : \A i \in 1..4 : b[i].k # "junk"}
                \cup {<<NaN, NaN, NaN, NaN>>}
YahooColumnSets == { {"time", "open", "high", "low", "close", "volume"},
                     {"time", "open", "volume"} }
YahooRows(cs) == {[c \in cs |-> RawRow(tc, bar)[c]] : tc \in YahooTimes, bar \in YahooBars}
YahooFrames ==
    UNION {UNION {{[columns |-> cs, rows |-> r] : r \in [1..n -> YahooRows(cs)]} :
                     n \in 0..MaxRows} : cs \in YahooColumnSets}

(* lines 68-80: the desired columns that are present, in the desired order *)
final_columns_for_csv(data_df) ==
    LET Present(c) == c \in data_df.columns
    IN  SelectSeq(DOWNLOAD_DESIRED_COLUMNS_OUTPUT_ORDER, Present)

to_csv(data_df) ==
    LET cols == final_columns_for_csv(data_df)
    IN  [exists |-> TRUE, header |-> cols, torn |-> FALSE,
         rows |-> [i \in 1..Len(data_df.rows) |->
                     [c \in SeqToSet(cols) |-> data_df.rows[i][c]]]]

(* a CSV left behind by an earlier run of the script *)
StaleCsv ==
    [exists |-> TRUE, header |-> DOWNLOAD_DESIRED_COLUMNS_OUTPUT_ORDER, torn |-> FALSE,
     rows |-> <<RawRow(Num(1700000000),
                       <<Num(205052), Num(206848), Num(203776), Num(205824)>>)>>]

MainInit ==
    /\ FmtIdle
    /\ DOWNLOAD_TICKER_SYMBOL = ""
    /\ mainPc = "select"
    /\ download_successful = "unset"
    /\ conversion_successful = "unset"
    /\ events = << >>
    /\ variant = "parser"
    /\ gap_interval_minutes = CONVERTER_GAP_INTERVAL_MINUTES
    /\ csvFile \in {NoCsv, StaleCsv}
    /\ excelFile = NoFile
    /\ pc = "idle"
    /\ df = NoFrame
    /\ df_processed = NoFrame
    /\ missing_cols = << >>
    /\ min_time = None
    /\ max_time = None
    /\ full_range = << >>
    /\ df_reindexed = NoFrame
    /\ output_df = NoFrame
    /\ message = "none"
    /\ retval = "running"
    /\ stages = << >>

(* lines 221-243: the loop ends with one of the listed symbols *)
SelectSymbol ==
    /\ mainPc = "select"
    /\ \E choice_num \in 1..Len(market_data_options) :
          DOWNLOAD_TICKER_SYMBOL' = market_data_options[choice_num]
    /\ mainPc' = "download"
    /\ UNCHANGED <<download_successful, conversion_successful, events>>
    /\ UNCHANGED <<runVars, fmtVars>>

Downloaded(msg, ok) ==
    /\ download_successful' = (IF ok THEN "True" ELSE "False")
    /\ message' = msg
    /\ events' = Append(events, IF ok THEN "download:True" ELSE "download:False")
    /\ mainPc' = "downloaded"
    /\ UNCHANGED <<DOWNLOAD_TICKER_SYMBOL, conversion_successful>>
    /\ UNCHANGED fmtVars
    /\ UNCHANGED <<variant, gap_interval_minutes, excelFile, pc, df, df_processed,
                   missing_cols, min_time, max_time, full_range, df_reindexed,
                   output_df, retval, stages>>

(* lines 43-84: data came back, the CSV is written, True *)
DownloadSaved ==
    /\ mainPc = "download"
    /\ \E data_df \in YahooFrames :
          /\ Len(data_df.rows) > 0
          /\ csvFile' = to_csv(data_df)
    /\ Downloaded("data_saved", TRUE)

(* lines 45-47: an empty reply, False, nothing written *)
DownloadNoData ==
    /\ mainPc = "download"
    /\ \E data_df \in YahooFrames : Len(data_df.rows) = 0
    /\ csvFile' = csvFile
    /\ Downloaded("no_data", FALSE)

(* lines 52-59: the reply has neither a Datetime nor a Date column, False,
   nothing written *)
DownloadNoDatetimeColumn ==
    /\ mainPc = "download"
    /\ csvFile' = csvFile
    /\ Downloaded("no_datetime_column", FALSE)

(* lines 86-88: yf.download, the processing or the opening of the CSV raises:
   False, nothing written *)
DownloadRaises ==
    /\ mainPc = "download"
    /\ csvFile' = csvFile
    /\ Downloaded("download_error", FALSE)

(* what is on disk when writing the text of a file stops short: the file was
   opened, which emptied it, and a proper prefix of the text was flushed.
   A file is its complete lines (the header line, then whole rows) and
   whether an unfinished line follows them: nothing at all, a torn header
   line, or the header and n whole rows with or without a torn row *)
TornCsvFiles(file) ==
    {[file EXCEPT !.header = << >>, !.rows = << >>, !.torn = t] : t \in BOOLEAN}
    \cup {[file EXCEPT !.rows = SubSeq(@, 1, n), !.torn = t] :
              n \in 0..(Len(file.rows) - 1), t \in BOOLEAN}

(* lines 80, 86-88: to_csv raises after it opened the file: a part of the
   text is on disk, in place of what was there, False *)
DownloadSaveFails ==
    /\ mainPc = "download"
    /\ \E data_df \in YahooFrames :
          /\ Len(data_df.rows) > 0
          /\ csvFile' \in TornCsvFiles(to_csv(data_df))
    /\ Downloaded("download_error", FALSE)

(* line 255, true branch, and the call of lines 261-269 *)
StartConversion ==
    /\ mainPc = "downloaded"
    /\ download_successful = "True"
    /\ mainPc' = "convert"
    /\ pc' = "read"
    /\ events' = Append(events, "convert")
    /\ UNCHANGED <<DOWNLOAD_TICKER_SYMBOL, download_successful, conversion_successful>>
    /\ UNCHANGED fmtVars
    /\ UNCHANGED <<variant, gap_interval_minutes, csvFile, excelFile, df, df_processed,
                   missing_cols, min_time, max_time, full_range, df_reindexed,
                   output_df, message, retval, stages>>

(* lines 281-284 *)
SkipConversion ==
    /\ mainPc = "downloaded"
    /\ download_successful = "False"
    /\ mainPc' = "finished"
    /\ events' = Append(events, "skip")
    /\ UNCHANGED <<DOWNLOAD_TICKER_SYMBOL, download_successful, conversion_successful>>
    /\ UNCHANGED <<runVars, fmtVars>>

(* mutant: the CSV is removed whatever the conversion returned *)
AfterConversionAlways(ok) == "remove"

(* lines 271-280: what follows the conversion *)
AfterConversion(ok) == IF ok THEN "remove" ELSE "finished"

(* lines 261, 271: the conversion has returned *)
ConversionReturns ==
    /\ mainPc = "convert"
    /\ pc = "done"
    /\ conversion_successful' = retval
    /\ events' = Append(events, IF retval = "True" THEN "convert:True"
                                                   ELSE "convert:False")
    /\ mainPc' = AfterConversion(retval = "True")
    /\ UNCHANGED <<DOWNLOAD_TICKER_SYMBOL, download_successful>>
    /\ UNCHANGED <<runVars, fmtVars>>

Removed(e) ==
    /\ mainPc' = "finished"
    /\ events' = Append(events, e)
    /\ UNCHANGED <<DOWNLOAD_TICKER_SYMBOL, download_successful, conversion_successful>>
    /\ UNCHANGED fmtVars
    /\ UNCHANGED <<variant, gap_interval_minutes, excelFile, pc, df, df_processed,
                   missing_cols, min_time, max_time, full_range, df_reindexed,
                   output_df, message, retval, stages>>

(* lines 274-276 *)
RemoveCsv ==
    /\ mainPc = "remove"
    /\ csvFile' = NoCsv
    /\ Removed("remove")

(* lines 277-278: os.remove raises OSError, the file stays *)
RemoveCsvFails ==
    /\ mainPc = "remove"
    /\ csvFile' = csvFile
    /\ Removed("remove:OSError")

MainNext ==
    \/ SelectSymbol
    \/ DownloadSaved
    \/ DownloadNoData
    \/ DownloadNoDatetimeColumn
    \/ DownloadRaises
    \/ DownloadSaveFails
    \/ StartConversion
    \/ SkipConversion
    \/ ReadCsv
    \/ CheckColumns
    \/ Normalize
    \/ TzConvert
    \/ TzUnknown
    \/ SortSetIndex
    \/ BuildGrid
    \/ Reindex
    \/ ReindexDuplicateLabels
    \/ FillGap
    \/ FormatDateTime
    \/ Assemble
    \/ FormatPrices
    \/ WriteExcel
    \/ WriteExcelOpenNotFound
    \/ WriteExcelOpenFails
    \/ WriteExcelSaveFails
    \/ ConversionReturns
    \/ RemoveCsv
    \/ RemoveCsvFails

MainSpec == MainInit /\ [][MainNext]_vars

(* ------------------------------------------------------------------ *)
(* The successful run as one function of the input file               *)
(* ------------------------------------------------------------------ *)
Indexed(file) ==
    set_index(sort_values(ToNy(ToUtc(SelectColumns(read_csv(file), CSV_COLUMNS))),
                          "time_dt_ny"),
              "time_dt_ny")

GapFilled(g) ==
    RenameColumn(
        reset_index(FillOhlc(reindex(g, date_range(IndexMin(g), IndexMax(g), GapFreq)))),
        "index", "time_dt_ny")

ConvertedSheet(file) ==
    Sheet(ApplyFormat(
              SelectColumns(Renamed(AddDateTime(GapFilled(Indexed(file)))),
                            FINAL_EXCEL_ORDERED_COLUMNS),
              PRICE_COLS))

(* ------------------------------------------------------------------ *)
(* The input as the claims speak of it                                *)
(* ------------------------------------------------------------------ *)
HasAllColumns ==
    /\ csvFile.exists
    /\ \A c \in SeqToSet(CSV_COLUMNS) : Contains(csvFile.header, c)
AbsentColumns == SeqToSet(CSV_COLUMNS) \ SeqToSet(csvFile.header)

(* the rows whose time parses: only meaningful under HasAllColumns *)
ValidPositions == {i \in 1..Len(csvFile.rows) : csvFile.rows[i]["time"].k = "num"}
BadPositions == (1..Len(csvFile.rows)) \ ValidPositions
InstantAt(i) == csvFile.rows[i]["time"].v
InputInstants == {InstantAt(i) : i \in ValidPositions}
MinInstant == CHOOSE t \in InputInstants : \A u \in InputInstants : t <= u
MaxInstant == CHOOSE t \in InputInstants : \A u \in InputInstants : u <= t
BarsAt(t) == {i \in ValidPositions : InstantAt(i) = t}
DistinctInstants == \A i, j \in ValidPositions : i # j => InstantAt(i) # InstantAt(j)

WithoutBadRows(file) ==
    LET Valid(r) == r["time"].k = "num"
    IN  [file EXCEPT !.rows = SelectSeq(file.rows, Valid)]

(* failures raised by the surroundings of the run, not by its input *)
EnvFailures == {"KeyError_required_column_not_found", "file_not_found",
                "unexpected_OSError_open", "unexpected_OSError_save"}
Written == excelFile.state = "complete"

(* ------------------------------------------------------------------ *)
(* C1  Gap fidelity.  In a written output, row j belongs to grid slot *)
(* j (its Date and Time are that slot's); each numeric open, high,    *)
(* low, close of an input Bar at exactly that instant appears in the  *)
(* row formatted to 3 decimals with a comma, and a row whose slot     *)
(* matches no input Bar has GAP in all four price fields.             *)
(* ------------------------------------------------------------------ *)
C1_GapFidelity ==
    Written =>
        /\ Len(excelFile.rows) = Len(full_range)
        /\ \A j \in 1..Len(full_range) :
              /\ excelFile.rows[j]["Date"] = StrfDate(full_range[j])
              /\ excelFile.rows[j]["Time"] = StrfTime(full_range[j])
              /\ \A i \in BarsAt(full_range[j].v) : \A k \in 1..4 :
                    csvFile.rows[i][OHLC[k]].k = "num" =>
                        excelFile.rows[j][PRICE_COLS[k]]
                            = Replace(FormatFixed3(csvFile.rows[i][OHLC[k]].v), ".", ",")
              /\ BarsAt(full_range[j].v) = {} =>
                    \A k \in 1..4 : excelFile.rows[j][PRICE_COLS[k]] = GAP

(* a written output with a slot that holds a Bar with a numeric open   *)
(* and a slot that holds no Bar                                        *)
C1_Witness ==
    /\ Written
    /\ \E j \in 1..Len(full_range) : \E i \in BarsAt(full_range[j].v) :
          /\ csvFile.rows[i]["open"].k = "num"
          /\ excelFile.rows[j]["OPEN"] = <<"1", "0", "0", ",", "1", "2", "3">>
    /\ \E j \in 1..Len(full_range) :
          /\ BarsAt(full_range[j].v) = {}
          /\ excelFile.rows[j]["CLOSE"] = GAP

(* ------------------------------------------------------------------ *)
(* C2  Sorted grid, as claimed: every input with all columns and at   *)
(* least one valid timestamp (duplicate time values included) yields  *)
(* an output whose instants are strictly increasing, one cadence      *)
(* apart, without duplicates.                                         *)
(* ------------------------------------------------------------------ *)
C2_SortedGridForAnyInput ==
    (pc = "done" /\ HasAllColumns /\ ValidPositions # {} /\ message \notin EnvFailures)
        => /\ Written
           /\ Len(excelFile.rows) = Len(full_range)
           /\ \A j \in 1..(Len(full_range) - 1) :
                 full_range[j + 1].v = full_range[j].v + GapFreq

(* ------------------------------------------------------------------ *)
(* C3  Closed range, as claimed: the grid starts at the earliest      *)
(* input instant and ends at the latest one, whatever their distance. *)
(* ------------------------------------------------------------------ *)
C3_ClosedRange ==
    Len(full_range) > 0 =>
        /\ full_range[1].v = MinInstant
        /\ full_range[Len(full_range)].v = MaxInstant

(* C3 as amended: the grid starts at the earliest input instant and   *)
(* ends at the last slot min_t + k * cadence that is not after the    *)
(* latest input instant; it ends at the latest input instant exactly  *)
(* when max_t - min_t is a multiple of the cadence.                   *)
C3_GridEnds ==
    min_time.k = "ny" =>
        /\ min_time.v = MinInstant
        /\ max_time.v = MaxInstant
        /\ Len(full_range) = (MaxInstant - MinInstant) \div GapFreq + 1
        /\ full_range[1].v = MinInstant
        /\ full_range[Len(full_range)].v
               = MinInstant + ((MaxInstant - MinInstant) \div GapFreq) * GapFreq
        /\ (full_range[Len(full_range)].v = MaxInstant)
               <=> ((MaxInstant - MinInstant) % GapFreq = 0)

(* a grid built over a range that is no multiple of the cadence, and   *)
(* carried to the written output                                       *)
C3_Witness ==
    /\ Written
    /\ (MaxInstant - MinInstant) % GapFreq # 0
    /\ MaxInstant - MinInstant > GapFreq
    /\ full_range[Len(full_range)].v < MaxInstant

(* ------------------------------------------------------------------ *)
(* C4  All-or-nothing output, as claimed: when the run has ended,     *)
(* either it succeeded and the file holds the whole formatted table,  *)
(* or there is no output file at all.                                 *)
(* ------------------------------------------------------------------ *)
C4_AllOrNothing ==
    pc = "done" =>
        \/ message = "success" /\ excelFile = Sheet(output_df)
        \/ excelFile.state = "absent"

(* ------------------------------------------------------------------ *)
(* C5  Empty-input abort.  When the file has all required columns and *)
(* no row whose time parses (zero rows, or only unparseable times),   *)
(* the run never reaches gap filling, writes no output file, and ends *)
(* with the 'no valid timestamps' message; the parser variant returns *)
(* False.                                                             *)
(* ------------------------------------------------------------------ *)
C5_EmptyInputAbort ==
    (HasAllColumns /\ ValidPositions = {}) =>
        /\ pc \in {"read", "check", "normalize", "done"}
        /\ \A k \in 1..Len(stages) : stages[k] \in {"read", "check", "normalize"}
        /\ excelFile.state = "absent"
        /\ full_range = << >>
        /\ pc = "done" =>
              /\ message = "no_valid_timestamps"
              /\ retval = (IF variant = "parser" THEN "False" ELSE "None")

(* a run over rows that all fail to parse has ended with that message *)
C5_Witness ==
    /\ pc = "done"
    /\ HasAllColumns
    /\ Len(csvFile.rows) >= 2
    /\ ValidPositions = {}
    /\ message = "no_valid_timestamps"
    /\ variant = "parser"
    /\ retval = "False"

(* ------------------------------------------------------------------ *)
(* C6  Column set.  A written output has exactly the columns Date,    *)
(* Time, OPEN, HIGH, LOW, CLOSE in that order, whatever columns the   *)
(* input has; no working column (time, time_dt_utc, time_dt_ny) and   *)
(* no extra input column is in it.                                    *)
(* ------------------------------------------------------------------ *)
C6_ColumnSet ==
    /\ output_df.columns \in {<< >>, FINAL_EXCEL_ORDERED_COLUMNS}
    /\ Written =>
          /\ excelFile.columns = <<"Date", "Time", "OPEN", "HIGH", "LOW", "CLOSE">>
          /\ \A j \in 1..Len(excelFile.rows) :
                DOMAIN excelFile.rows[j]
                    = {"Date", "Time", "OPEN", "HIGH", "LOW", "CLOSE"}
          /\ \A c \in {"time", "time_dt_utc", "time_dt_ny", "volume", "index"} :
                ~Contains(excelFile.columns, c)

(* an output written from an input that has the extra column volume,   *)
(* by a run whose working frame held the working columns               *)
C6_Witness ==
    /\ Written
    /\ Contains(csvFile.header, "volume")
    /\ Contains(df_processed.columns, "time_dt_utc")
    /\ Contains(df_processed.columns, "time_dt_ny")
    /\ Len(excelFile.rows) >= 2

(* ------------------------------------------------------------------ *)
(* C7  Null price of an existing bar, as claimed: in a written        *)
(* output, a price field that is empty in an input Bar sitting on a   *)
(* grid slot is the empty string in that slot's row.                  *)
(* ------------------------------------------------------------------ *)
C7_NullPriceIsEmpty ==
    Written =>
        \A j \in 1..Len(full_range) : \A i \in BarsAt(full_range[j].v) : \A k \in 1..4 :
            csvFile.rows[i][OHLC[k]].k = "nan" =>
                excelFile.rows[j][PRICE_COLS[k]] = EMPTY_TEXT

(* ------------------------------------------------------------------ *)
(* C8  Unparseable-timestamp rows are dropped and not fatal, as       *)
(* claimed: a run over a file with all columns, at least one valid    *)
(* time and at least one unparseable one completes, and what it       *)
(* writes is what the file without the unparseable rows converts to.  *)
(* ------------------------------------------------------------------ *)
C8_BadRowsDroppedRunCompletes ==
    (/\ pc = "done"
     /\ HasAllColumns
     /\ ValidPositions # {}
     /\ BadPositions # {}
     /\ message \notin EnvFailures)
        => /\ message = "success"
           /\ excelFile = ConvertedSheet(WithoutBadRows(csvFile))

(* ------------------------------------------------------------------ *)
(* C9  Missing required column.  When the file lacks one or more of   *)
(* time, open, high, low, close, the run ends at the column check:    *)
(* timestamp normalization never runs, no output file is written, and *)
(* the names reported are exactly the absent required columns.        *)
(* ------------------------------------------------------------------ *)
C9_MissingColumn ==
    (csvFile.exists /\ AbsentColumns # {}) =>
        /\ pc \in {"read", "check", "done"}
        /\ \A k \in 1..Len(stages) : stages[k] \in {"read", "check"}
        /\ df_processed = NoFrame
        /\ excelFile.state = "absent"
        /\ pc = "done" =>
              /\ message = "missing_columns"
              /\ SeqToSet(missing_cols) = AbsentColumns
              /\ Len(missing_cols) = Cardinality(AbsentColumns)
              /\ retval = (IF variant = "parser" THEN "False" ELSE "None")

(* a run ended by the column check with several names reported *)
C9_Witness ==
    /\ pc = "done"
    /\ message = "missing_columns"
    /\ missing_cols = <<"high", "low", "close">>
    /\ Len(csvFile.rows) >= 1

(* ------------------------------------------------------------------ *)
(* C10  Price format round trip.  The text of a numeric price has the *)
(* form [-]digits,ddd: ',' as the separator, exactly 3 fractional     *)
(* digits, no '.'; the value 100 gives 100,000; and the text read     *)
(* back (',' -> '.') is within 0.0005 of the value.                   *)
(* ------------------------------------------------------------------ *)
C10_FormatRoundTrip ==
    /\ fmtPc \in {"text", "parsed"} =>
          /\ IsFixed3(Replace(fmtOut, ",", "."))
          /\ ~Contains(fmtOut, ".")
          /\ fmtOut[Len(fmtOut) - 3] = ","
          /\ fmtIn = 100 * PriceDen => fmtOut = <<"1", "0", "0", ",", "0", "0", "0">>
    /\ fmtPc = "parsed" =>
          2 * Abs(PriceDen * fmtBack - 1000 * fmtIn) <= PriceDen

(* the value 100 formatted and read back *)
C10_Witness ==
    /\ fmtPc = "parsed"
    /\ fmtIn = 100 * PriceDen
    /\ fmtOut = <<"1", "0", "0", ",", "0", "0", "0">>
    /\ fmtBack = 100000

(* ------------------------------------------------------------------ *)
(* C11  Pipeline order, as claimed: every formatting stage, the one   *)
(* of the price fields included, has run before the output columns    *)
(* are selected and ordered.                                          *)
(* ------------------------------------------------------------------ *)
StageAt(name) == CHOOSE k \in 1..Len(stages) : stages[k] = name

C11_FormatBeforeAssemble ==
    Contains(stages, "assemble") =>
        /\ Contains(stages, "datetime")
        /\ StageAt("datetime") < StageAt("assemble")
        /\ Contains(stages, "prices")
        /\ StageAt("prices") < StageAt("assemble")

(* C11 as amended: the statement groups run once each in the order    *)
(* read, column check, normalize, timezone, sort, grid, reindex,      *)
(* fill, Date/Time formatting, rename-and-select, price formatting,   *)
(* write.  Date and Time are formatted before the output columns are  *)
(* selected; the price fields are formatted after the selection, on   *)
(* the selected frame, and before the write; the write is last.       *)
StageOrder ==
    <<"read", "check", "normalize", "tz", "sort", "grid", "reindex", "fill",
      "datetime", "assemble", "prices", "write">>

C11_StageOrder ==
    /\ Len(stages) <= Len(StageOrder)
    /\ \A k \in 1..Len(stages) : stages[k] = StageOrder[k]
    /\ pc = "prices" =>
          /\ stages = SubSeq(StageOrder, 1, 10)
          /\ output_df.columns = FINAL_EXCEL_ORDERED_COLUMNS
          /\ \A i \in 1..Len(output_df.data) :
                /\ output_df.data[i]["Date"].k = "text"
                /\ output_df.data[i]["Time"].k = "text"
                /\ \A k \in 1..4 : output_df.data[i][PRICE_COLS[k]].k # "text"
    /\ pc = "write" =>
          /\ stages = SubSeq(StageOrder, 1, 11)
          /\ \A i \in 1..Len(output_df.data) :
                \A c \in SeqToSet(FINAL_EXCEL_ORDERED_COLUMNS) :
                    output_df.data[i][c].k = "text"
    /\ Written => stages = StageOrder

(* a run that wrote its output, over a frame with a gap row *)
C11_Witness ==
    /\ Written
    /\ stages = StageOrder
    /\ Len(excelFile.rows) >= 3
    /\ \E j \in 1..Len(excelFile.rows) : excelFile.rows[j]["OPEN"] = GAP

(* ------------------------------------------------------------------ *)
(* C12  Off-grid instants are dropped.  In a written output, an input *)
(* Bar whose instant is not min_t + k * cadence is on no grid slot    *)
(* and has no row (no row carries its Date and Time); every price     *)
(* cell of a row comes from a Bar that sits exactly on the row's      *)
(* slot, and the slots next to the off-grid Bar that hold no Bar are  *)
(* GAP in all four fields.                                            *)
(* ------------------------------------------------------------------ *)
OffGrid(i) == (InstantAt(i) - MinInstant) % GapFreq # 0
SlotBefore(t) == MinInstant + ((t - MinInstant) \div GapFreq) * GapFreq

(* the text a cell of an input Bar is written as *)
CellText(c) ==
    CASE c.k = "num" -> Replace(FormatFixed3(c.v), ".", ",")
      [] c.k = "junk" -> JUNK_TEXT
      [] OTHER -> GAP

C12_OffGridDropped ==
    Written =>
        /\ \A j \in 1..Len(full_range) : \A k \in 1..4 :
              \/ /\ BarsAt(full_range[j].v) = {}
                 /\ excelFile.rows[j][PRICE_COLS[k]] = GAP
              \/ \E b \in BarsAt(full_range[j].v) :
                    excelFile.rows[j][PRICE_COLS[k]] = CellText(csvFile.rows[b][OHLC[k]])
        /\ \A i \in ValidPositions : OffGrid(i) =>
              /\ \A j \in 1..Len(full_range) :
                    /\ full_range[j].v # InstantAt(i)
                    /\ ~(/\ excelFile.rows[j]["Date"] = StrfDate(Ny(InstantAt(i)))
                         /\ excelFile.rows[j]["Time"] = StrfTime(Ny(InstantAt(i))))
              /\ \A j \in 1..Len(full_range) :
                    (/\ full_range[j].v \in {SlotBefore(InstantAt(i)),
                                             SlotBefore(InstantAt(i)) + GapFreq}
                     /\ BarsAt(full_range[j].v) = {})
                        => \A k \in 1..4 : excelFile.rows[j][PRICE_COLS[k]] = GAP

(* a written output of an input with an off-grid Bar between two      *)
(* slots, the later of which holds no Bar                             *)
C12_Witness ==
    /\ Written
    /\ \E i \in ValidPositions :
          /\ OffGrid(i)
          /\ InstantAt(i) < MaxInstant
          /\ csvFile.rows[i]["open"].k = "num"
          /\ \E j \in 1..Len(full_range) :
                /\ full_range[j].v = SlotBefore(InstantAt(i)) + GapFreq
                /\ BarsAt(full_range[j].v) = {}
                /\ excelFile.rows[j]["OPEN"] = GAP

(* ------------------------------------------------------------------ *)
(* C13  Order independence.  For an input with all columns whose      *)
(* valid timestamps are pairwise distinct, every permutation of the   *)
(* rows gives the same sorted, indexed frame before the grid is       *)
(* built, and the same written output (same rows, same order).        *)
(* ------------------------------------------------------------------ *)
RowOrders(n) ==
    {p \in [1..n -> 1..n] : \A a, b \in 1..n : a # b => p[a] # p[b]}

Permuted(file, p) ==
    [file EXCEPT !.rows = [i \in 1..Len(file.rows) |-> file.rows[p[i]]]]

C13_OrderIndependence ==
    (HasAllColumns /\ DistinctInstants) =>
        /\ pc = "grid" =>
              \A p \in RowOrders(Len(csvFile.rows)) :
                  df_processed = Indexed(Permuted(csvFile, p))
        /\ Written =>
              \A p \in RowOrders(Len(csvFile.rows)) :
                  excelFile = ConvertedSheet(Permuted(csvFile, p))

(* an output written from three rows that are not in time order *)
C13_Witness ==
    /\ Written
    /\ Len(csvFile.rows) = 3
    /\ ValidPositions = {1, 2, 3}
    /\ DistinctInstants
    /\ InstantAt(1) > InstantAt(3)
    /\ InstantAt(3) > InstantAt(2)
    /\ csvFile.rows[1]["open"] # csvFile.rows[2]["open"]

(* ------------------------------------------------------------------ *)
(* C14: ordering of the combined download-and-convert run             *)
(* ------------------------------------------------------------------ *)
Happened(e) == Contains(events, e)
Before(a, b) ==
    \E i, j \in 1..Len(events) : i < j /\ events[i] = a /\ events[j] = b
RemovalTried ==
    \/ mainPc = "remove"
    \/ Happened("remove")
    \/ Happened("remove:OSError")
ConversionStarted == pc # "idle" \/ Happened("convert")

(* C14: in the script run, the conversion starts only after the download
   returned True, and starts on a CSV that is on disk with at least one row;
   the removal of the CSV is reached only after the conversion returned True,
   with the Excel file completely written; after a failed download there is
   no conversion and no removal; after a failed conversion the script is
   finished with the CSV still on disk and no removal attempted. *)
C14_MainOrdering ==
    /\ ConversionStarted =>
          /\ download_successful = "True"
          /\ events[1] = "download:True"
    /\ (mainPc = "convert" /\ pc = "read") =>
          (csvFile.exists /\ Len(csvFile.rows) > 0)
    /\ RemovalTried =>
          /\ conversion_successful = "True"
          /\ retval = "True"
          /\ Written
          /\ Happened("convert:True")
          /\ ~Before("remove", "convert:True")
          /\ ~Before("remove:OSError", "convert:True")
    /\ (download_successful = "True" /\ ~csvFile.exists) =>
          (Happened("remove") /\ Written)
    /\ download_successful = "False" =>
          /\ ~ConversionStarted
          /\ ~RemovalTried
          /\ stages = << >>
          /\ excelFile = NoFile
          /\ conversion_successful = "unset"
    /\ conversion_successful = "False" =>
          /\ csvFile.exists
          /\ mainPc = "finished"
          /\ ~RemovalTried
          /\ ~Written

(* the run went through: downloaded, converted, the CSV removed *)
C14_Witness ==
    /\ mainPc = "finished"
    /\ events = <<"download:True", "convert", "convert:True", "remove">>
    /\ ~csvFile.exists
    /\ Written
    /\ Len(excelFile.rows) > 1

====
